---- MODULE Spec2Model ----
(***************************************************************************)
(* Progression engine of questpath-backend: the Goal -> Roadmap -> Level   *)
(* tables, the users' total_exp, the leaderboard cache, and the handlers   *)
(* create_goal, mark_topic, get_level_quiz, submit_level_quiz and          *)
(* get_leaderboard, the generators' validation and check_rate_limit.       *)
(*                                                                         *)
(* Spec     runs every handler as one step (requests one after another).   *)
(* SpecCache is Spec's submit_level_quiz and create_goal with the           *)
(*          leaderboard and its cache.                                     *)
(* SpecRate runs check_rate_limit on its redis counters with a clock;      *)
(*          SpecRateFaulty lets redis fail as well.                        *)
(* SpecConc splits submit_level_quiz at its awaits (db.get of the user,    *)
(*          the select of the level, db.commit), so requests overlap; each *)
(*          request works on its own session snapshot and its commit       *)
(*          writes only the attributes the session changed.                *)
(* SpecConcCache adds get_leaderboard and the cache to those sessions.     *)
(* SpecTopics splits mark_topic in the same way.                           *)
(* SpecRateConc splits check_rate_limit at its two redis round trips, for  *)
(*          calls made by server processes that share the redis.           *)
(***************************************************************************)
EXTENDS Integers, Sequences, FiniteSets, TLC

VARIABLES
    total_exp,  \* users.total_exp, by user id
    goals,      \* table goals: row id = index; [user_id, status]
    roadmaps,   \* table roadmaps: row id = index; [goal_id]
    levels,     \* table levels: row id = index; [roadmap_id, order, xp_reward, status, topics]
    cache,      \* redis key "leaderboard": [present, value]
    req,        \* requests in flight, by slot: position and session state
    rate_limit, \* redis keys "rate_limit:{ip}:{key}": [count, ttl]; ttl = 0: no such key
    rate_calls, \* history, by key: calls since the key was created, and its age
    last        \* the request (or cache expiry) that finished last, with its response

vars == <<total_exp, goals, roadmaps, levels, cache, req, rate_limit, rate_calls, last>>

limiter == <<rate_limit, rate_calls>>

db == <<total_exp, goals, roadmaps, levels>>

----------------------------------------------------------------------------
(* Bounds of the model *)

\* rows the levels table may hold
MaxLevelRows == 3
\* largest total_exp a user may reach
MaxTotalExp == 3
\* lowest total_exp a user may reach is -MaxDebt
MaxDebt == 1
\* requests that may be in flight at once
MaxRequests == 2
\* the limit passed to check_rate_limit
RateLimit == 2
\* the window passed to check_rate_limit, in ticks of the clock
RateWindow == 2

Users == {1, 2}
Slots == 1..MaxRequests

----------------------------------------------------------------------------
(* models.py: the enums *)

GoalStatus == {"not_started", "in_progress", "completed"}
LevelStatus == {"locked", "unlocked", "in_progress", "completed"}

----------------------------------------------------------------------------
(* ai_service.generate_roadmap: the documents the model may return, and    *)
(* the validation of lines 88-117.  A topic is its completed flag.         *)

RequiredKeys == {"title", "category", "difficulty", "roadmap"}
RequiredLevelKeys == {"order", "title", "description", "topics", "xp_reward"}
ValidDifficulties == {"beginner", "intermediate", "advanced"}

DocLevel(o, xp, tps) ==
    [keys |-> RequiredLevelKeys, order |-> o, xp_reward |-> xp, topics |-> tps]

Doc(ls) ==
    [keys |-> RequiredKeys, rkeys |-> {"name", "levels"},
     difficulty |-> "beginner", levels |-> ls]

DocThree == Doc(<<DocLevel(1, 1, <<FALSE, FALSE>>), DocLevel(2, 2, <<>>), DocLevel(3, 1, <<>>)>>)
DocTwo == Doc(<<DocLevel(1, 1, <<FALSE>>), DocLevel(2, 2, <<>>)>>)
DocNegative == Doc(<<DocLevel(1, -1, <<>>)>>)
\* two levels that both carry order 1
DocDuplicate == Doc(<<DocLevel(1, 1, <<>>), DocLevel(1, 1, <<>>)>>)
DocNoLevelsKey == [Doc(<<>>) EXCEPT !.rkeys = {"name"}]
DocEmptyLevels == Doc(<<>>)

DocumentList == <<DocThree, DocTwo, DocNegative, DocDuplicate, DocNoLevelsKey, DocEmptyLevels>>

Documents == {DocumentList[i] : i \in 1..Len(DocumentList)}

\* the number under which a request and its response name a document
DocId(doc) == CHOOSE i \in 1..Len(DocumentList) : DocumentList[i] = doc

\* what one call of generate_roadmap may come to: 0 is the failure of the model
\* call (Exception), d > 0 is the model's answer DocumentList[d]
RoadmapGenerations == 0..Len(DocumentList)

\* TRUE iff generate_roadmap returns the document, FALSE iff it raises ValueError
RoadmapValid(doc) ==
    /\ RequiredKeys \subseteq doc.keys
    /\ "name" \in doc.rkeys
    /\ "levels" \in doc.rkeys
    /\ doc.difficulty \in ValidDifficulties
    /\ Len(doc.levels) # 0
    /\ \A i \in 1..Len(doc.levels) : RequiredLevelKeys \subseteq doc.levels[i].keys

----------------------------------------------------------------------------
(* ai_service.generate_quiz_for_level: the documents the model may return, *)
(* and the validation of lines 205-222.  An option is its value (label).   *)

RequiredQuestionKeys == {"id", "question", "options", "correct_answer"}

QuizQuestion(opts, answer) ==
    [keys |-> RequiredQuestionKeys, options |-> opts, correct_answer |-> answer]

Quiz(qs) == [keys |-> {"questions"}, questions |-> qs]

QuizGood == Quiz(<<QuizQuestion(<<"A", "B", "C", "D">>, "A")>>)
QuizThreeOptions == Quiz(<<QuizQuestion(<<"A", "B", "C">>, "A")>>)
QuizWrongAnswer == Quiz(<<QuizQuestion(<<"A", "B", "C", "D">>, "E")>>)

QuizList == <<QuizGood, QuizThreeOptions, QuizWrongAnswer>>

\* the number under which a request and its response name a quiz document
QuizId(quiz) == CHOOSE i \in 1..Len(QuizList) : QuizList[i] = quiz

\* what one call of generate_quiz_for_level may come to: 0 is the failure of
\* the model call (Exception), q > 0 is the model's answer QuizList[q]
QuizGenerations == 0..Len(QuizList)

\* (mutant) the number of options is not checked
QuizValidAnyOptions(quiz) ==
    /\ "questions" \in quiz.keys
    /\ Len(quiz.questions) # 0
    /\ \A i \in 1..Len(quiz.questions) : RequiredQuestionKeys \subseteq quiz.questions[i].keys

\* TRUE iff generate_quiz_for_level returns the document, FALSE iff it raises ValueError
QuizValid(quiz) ==
    /\ "questions" \in quiz.keys
    /\ Len(quiz.questions) # 0
    /\ \A i \in 1..Len(quiz.questions) :
          /\ RequiredQuestionKeys \subseteq quiz.questions[i].keys
          /\ Len(quiz.questions[i].options) = 4

----------------------------------------------------------------------------
(* The response record of a finished request *)

Response(op, u, l, arg, code) ==
    [op |-> op, user |-> u, level |-> l, arg |-> arg, code |-> code,
     xp_earned |-> 0, unlocked |-> FALSE, gen |-> FALSE, before |-> FALSE]

NoResponse == Response("none", 0, 0, 0, 0)

BoolArg(b) == IF b THEN 1 ELSE 0

----------------------------------------------------------------------------
(* Queries *)

RoadmapLevels(lv, r) == {i \in 1..Len(lv) : lv[i].roadmap_id = r}

\* (mutant) the select does not filter on Goal.user_id
LevelExists(lv, rm, gl, l, u) == l \in 1..Len(lv)

\* select(Level).join(Roadmap).join(Goal).where(Level.id == level_id,
\*                                             Goal.user_id == current_user.id)
LevelOwnedBy(lv, rm, gl, l, u) ==
    /\ l \in 1..Len(lv)
    /\ gl[rm[lv[l].roadmap_id].goal_id].user_id = u

GoalOfLevel(lv, rm, l) == rm[lv[l].roadmap_id].goal_id

----------------------------------------------------------------------------
(* The session of one request: what the handler computes on the rows it    *)
(* loaded, and the UPDATEs the commit then emits.  SQLAlchemy's unit of    *)
(* work writes an attribute only if its value differs from the loaded one, *)
(* and writes the value the session holds.                                 *)

\* level.status = COMPLETED if it is not already
Completed(lv, l) ==
    IF lv[l].status # "completed" THEN [lv EXCEPT ![l].status = "completed"] ELSE lv

\* (mutant) any() in place of all()
GoalStatusAnyCompleted(lv, r) ==
    IF \E i \in RoadmapLevels(lv, r) : lv[i].status = "completed"
    THEN "completed"
    ELSE "in_progress"

\* all(l.status == COMPLETED for l in all_levels) ? COMPLETED : IN_PROGRESS
RecomputedGoalStatus(lv, r) ==
    IF \A i \in RoadmapLevels(lv, r) : lv[i].status = "completed"
    THEN "completed"
    ELSE "in_progress"

\* (mutant) the next level is looked up as any later level
NextLevelAnyLater(lv, l) ==
    LET c == {i \in RoadmapLevels(lv, lv[l].roadmap_id) : lv[i].order > lv[l].order}
    IN IF c = {} THEN {0} ELSE c

\* next((l for l in all_levels if l.order == level.order + 1), None): the rows
\* next() may return (0 is None). Roadmap.levels is ordered by Level.order
\* alone, so among rows of equal order the first one is not determined.
NextLevelChoices(lv, l) ==
    LET c == {i \in RoadmapLevels(lv, lv[l].roadmap_id) : lv[i].order = lv[l].order + 1}
    IN IF c = {} THEN {0} ELSE c

\* if next_level and next_level.status == LOCKED
Unlocks(lv, nx) == nx # 0 /\ lv[nx].status = "locked"

\* (mutant) the next level is completed instead of unlocked
UnlockedCompletesNext(lv, nx) ==
    IF Unlocks(lv, nx) THEN [lv EXCEPT ![nx].status = "completed"] ELSE lv

Unlocked(lv, nx) ==
    IF Unlocks(lv, nx) THEN [lv EXCEPT ![nx].status = "unlocked"] ELSE lv

\* current_user.total_exp += xp_earned, on the User row this session loaded
AwardedExp(xpSnap, xp) == xpSnap + xp

NoWrites == [user |-> 0, xp |-> <<>>, st |-> {}, gs |-> <<>>, tp |-> <<>>]

\* The dirty attributes of the session of submit_level_quiz(passed) at its commit.
\* xpSnap: total_exp of the User row loaded by get_current_user; lv, rm, gl: the
\* rows the select loaded; nx: the row next() returned.
SubmitWrites(u, xpSnap, lv, rm, gl, l, nx) ==
    LET done == Completed(lv, l)
        g    == GoalOfLevel(lv, rm, l)
        gs   == RecomputedGoalStatus(done, lv[l].roadmap_id)
        sess == Unlocked(done, nx)
        exp  == AwardedExp(xpSnap, lv[l].xp_reward)
    IN [user |-> u,
        xp   |-> IF exp # xpSnap THEN <<exp>> ELSE <<>>,
        st   |-> {<<i, sess[i].status>> : i \in {j \in 1..Len(lv) : sess[j].status # lv[j].status}},
        gs   |-> IF gs # gl[g].status THEN << <<g, gs>> >> ELSE <<>>,
        tp   |-> <<>>]

SubmitResponse(u, lv, l, nx) ==
    [Response("submit_quiz", u, l, 1, 200) EXCEPT
        !.xp_earned = lv[l].xp_reward,
        !.unlocked = Unlocks(Completed(lv, l), nx)]

\* (mutant) the topic is marked completed instead of flipped
ToggledSetsTrue(tps, idx) == [tps EXCEPT ![idx + 1] = TRUE]

\* level.topics[topic_index]["completed"] = not ...; topic_index counts from 0
Toggled(tps, idx) == [tps EXCEPT ![idx + 1] = ~tps[idx + 1]]

\* flag_modified(level, "topics"): the commit writes the whole list
ToggleWrites(u, lv, l, idx) ==
    [NoWrites EXCEPT !.user = u, !.tp = << <<l, Toggled(lv[l].topics, idx)>> >>]

\* topic_index < 0 or topic_index >= len(level.topics)
InvalidTopicIndex(tps, idx) == idx < 0 \/ idx >= Len(tps)

\* (mutant) the gate closes only when no topic is completed
TopicsNoneCompleted(tps) == Len(tps) # 0 /\ (\A i \in 1..Len(tps) : ~tps[i])

\* level.topics and not all(topic.get("completed", False) for topic in level.topics)
TopicsIncomplete(tps) == Len(tps) # 0 /\ ~(\A i \in 1..Len(tps) : tps[i])

\* (mutant) a commit that writes users.total_exp and drops the other UPDATEs
FlushExpOnly(w) ==
    /\ total_exp' = IF w.xp # <<>> THEN [total_exp EXCEPT ![w.user] = w.xp[1]] ELSE total_exp
    /\ UNCHANGED <<levels, goals, roadmaps>>

\* db.commit(): the UPDATEs of the session, applied in one transaction to the
\* rows as they are now
Flush(w) ==
    /\ total_exp' = IF w.xp # <<>> THEN [total_exp EXCEPT ![w.user] = w.xp[1]] ELSE total_exp
    /\ levels' = [i \in 1..Len(levels) |->
                    LET s1 == IF \E p \in w.st : p[1] = i
                              THEN [levels[i] EXCEPT !.status = (CHOOSE p \in w.st : p[1] = i)[2]]
                              ELSE levels[i]
                    IN IF w.tp # <<>> /\ w.tp[1][1] = i
                       THEN [s1 EXCEPT !.topics = w.tp[1][2]]
                       ELSE s1]
    /\ goals' = IF w.gs # <<>>
                THEN [goals EXCEPT ![w.gs[1][1]].status = w.gs[1][2]]
                ELSE goals
    /\ UNCHANGED roadmaps

ExpInRange(x) == -MaxDebt <= x /\ x <= MaxTotalExp

----------------------------------------------------------------------------
(* cache.py, on the key "leaderboard" *)

AbsentCache == [present |-> FALSE, value |-> [u \in Users |-> 0]]

\* delete_cache("leaderboard")
DeleteCache == cache' = AbsentCache

\* set_cache("leaderboard", json.dumps(leaderboard), expire=300); the list is
\* determined by the users' total_exp at the time of the query
SetCache(xp) == cache' = [present |-> TRUE, value |-> xp]

----------------------------------------------------------------------------
(* goals.create_goal: the rows it adds *)

\* (mutant) every level starts unlocked
InitialLevelStatusUnlocked(order) == "unlocked"

\* status=LevelStatus.UNLOCKED if level_data["order"] == 1 else LevelStatus.LOCKED
InitialLevelStatus(order) == IF order = 1 THEN "unlocked" ELSE "locked"

NewLevelRow(r, ld) ==
    [roadmap_id |-> r, order |-> ld.order, xp_reward |-> ld.xp_reward,
     status |-> InitialLevelStatus(ld.order), topics |-> ld.topics]

GoalsWith(gl, u) == Append(gl, [user_id |-> u, status |-> "not_started"])
RoadmapsWith(rm, g) == Append(rm, [goal_id |-> g])
LevelsWith(lv, r, doc) == lv \o [i \in 1..Len(doc.levels) |-> NewLevelRow(r, doc.levels[i])]

----------------------------------------------------------------------------
(* rate_limiter.py: the counters in redis, one per (client ip, action key) *)

Clients == {1, 2}
RateActions == {"create_goal", "generate_quiz"}
\* the counters in use: client 1 calls both actions, client 2 calls create_goal
RateKeys == (Clients \X RateActions) \ {<<2, "generate_quiz">>}

NoKey == [count |-> 0, ttl |-> 0]
NoCalls == [n |-> 0, age |-> 0]

\* what may go wrong with redis in one call: nothing, redis_client.get raises,
\* or pipe.execute() raises
StoreFaults == {"none", "get", "pipeline"}

FaultArg(fault) == CASE fault = "none" -> 0 [] fault = "get" -> 1 [] fault = "pipeline" -> 2

\* (mutant) the comparison is > instead of >=
RateLimitVerdictAbove(fault, key, limit) ==
    IF fault = "get" THEN 0
    ELSE IF key.ttl # 0 /\ key.count > limit THEN 429
    ELSE 0

\* (mutant) a failing read of the counter rejects the request
RateLimitVerdictFailClosed(fault, key, limit) ==
    IF fault = "get" THEN 429
    ELSE IF key.ttl # 0 /\ key.count >= limit THEN 429
    ELSE 0

\* count = redis_client.get(cache_key); if count and int(count) >= limit: raise
\* HTTPException(429); "except Exception" swallows a failing get. 0: the
\* function goes on, 429: it raises.
RateLimitVerdict(fault, key, limit) ==
    IF fault = "get" THEN 0
    ELSE IF key.ttl # 0 /\ key.count >= limit THEN 429
    ELSE 0

\* pipe.incr(cache_key); pipe.expire(cache_key, window); pipe.execute()
Counted(key, window) == [count |-> key.count + 1, ttl |-> window]

\* history: one more call on the key (n stops counting past limit + 1)
Called(key, calls, limit) ==
    IF key.ttl = 0
    THEN [n |-> 1, age |-> 0]
    ELSE [calls EXCEPT !.n = IF calls.n > limit THEN calls.n ELSE calls.n + 1]

----------------------------------------------------------------------------
(* State after construction: the users exist, the tables are empty *)

IdleRequest == [pc |-> "idle", user |-> 0, xp |-> 0, w |-> NoWrites, resp |-> NoResponse]

Init ==
    /\ total_exp = [u \in Users |-> 0]
    /\ goals = <<>>
    /\ roadmaps = <<>>
    /\ levels = <<>>
    /\ cache = AbsentCache
    /\ req = [s \in Slots |-> IdleRequest]
    /\ rate_limit = [k \in RateKeys |-> NoKey]
    /\ rate_calls = [k \in RateKeys |-> NoCalls]
    /\ last = NoResponse

----------------------------------------------------------------------------------------------------------------------------------------
(* Handlers, one request at a time.  check_rate_limit's verdict depends on *)
(* the redis counter of (client, action); here it is an input of the       *)
(* request: the limiter either lets the request in or raises 429 before    *)
(* the handler has read anything.                                          *)

RateLimited(op, u) ==
    /\ last' = Response(op, u, 0, 0, 429)
    /\ UNCHANGED <<db, cache, req>>
    /\ UNCHANGED limiter

\* The responses 201 and 400 record the document the generator returned (arg);
\* a response 500 records only whether the generator had returned one (gen).
\* A database call of the handler may raise: db.flush() and
\* db.commit() before the rows are committed, db.refresh() and the final select
\* after it; "except Exception" answers 500 in both cases, and its db.rollback()
\* undoes only what is not yet committed.
CreateGoal(u, d) ==
    /\ IF d = 0
       THEN \* generate_roadmap raises Exception: the model call failed
            /\ last' = Response("create_goal", u, 0, 0, 500)
            /\ UNCHANGED db
       ELSE LET doc == DocumentList[d] IN
            IF ~RoadmapValid(doc)
            THEN /\ last' = Response("create_goal", u, 0, d, 400)
                 /\ UNCHANGED db
            ELSE /\ Len(levels) + Len(doc.levels) <= MaxLevelRows
                 /\ \/ \* a flush or the commit raises
                       /\ last' = [Response("create_goal", u, 0, 0, 500) EXCEPT !.gen = TRUE]
                       /\ UNCHANGED db
                    \/ /\ goals' = GoalsWith(goals, u)
                       /\ roadmaps' = RoadmapsWith(roadmaps, Len(goals) + 1)
                       /\ levels' = LevelsWith(levels, Len(roadmaps) + 1, doc)
                       /\ UNCHANGED total_exp
                       /\ \/ last' = Response("create_goal", u, 0, d, 201)
                          \/ \* db.refresh(goal) or the select after the commit raises
                             last' = [Response("create_goal", u, 0, 0, 500) EXCEPT !.gen = TRUE]
    /\ UNCHANGED <<cache, req>>
    /\ UNCHANGED limiter

\* (mutant) the select does not filter on Goal.user_id
MarkTopicAnyOwner(u, l, idx) ==
    /\ IF l \notin 1..Len(levels)
       THEN /\ last' = Response("mark_topic", u, l, 0, 404)
            /\ UNCHANGED db
       ELSE IF InvalidTopicIndex(levels[l].topics, idx)
       THEN /\ last' = Response("mark_topic", u, l, idx, 400)
            /\ UNCHANGED db
       ELSE /\ Flush(ToggleWrites(u, levels, l, idx))
            /\ last' = [Response("mark_topic", u, l, idx, 200) EXCEPT
                            !.before = levels[l].topics[idx + 1]]
    /\ UNCHANGED <<cache, req>>
    /\ UNCHANGED limiter

MarkTopic(u, l, idx) ==
    /\ IF ~LevelOwnedBy(levels, roadmaps, goals, l, u)
       THEN /\ last' = Response("mark_topic", u, l, 0, 404)
            /\ UNCHANGED db
       ELSE IF InvalidTopicIndex(levels[l].topics, idx)
       THEN /\ last' = Response("mark_topic", u, l, idx, 400)
            /\ UNCHANGED db
       ELSE /\ Flush(ToggleWrites(u, levels, l, idx))
            /\ last' = [Response("mark_topic", u, l, idx, 200) EXCEPT
                            !.before = levels[l].topics[idx + 1]]
    /\ UNCHANGED <<cache, req>>
    /\ UNCHANGED limiter

\* The call of generate_quiz_for_level is inside "try: ... except Exception",
\* which answers 500 for the ValueError of the validation as for the Exception
\* of a failed model call.  The response records the generation (arg).
GetQuiz(u, l, q) ==
    /\ IF ~LevelOwnedBy(levels, roadmaps, goals, l, u)
       THEN last' = Response("get_quiz", u, l, 0, 404)
       ELSE IF TopicsIncomplete(levels[l].topics)
       THEN last' = Response("get_quiz", u, l, 0, 403)
       ELSE last' = [Response("get_quiz", u, l, q,
                              IF q # 0 /\ QuizValid(QuizList[q]) THEN 200 ELSE 500)
                       EXCEPT !.gen = TRUE]
    /\ UNCHANGED <<db, cache, req>>
    /\ UNCHANGED limiter

\* (mutant) the handler does not test quiz_submit.passed
SubmitQuizIgnoresVerdict(u, l, passed) ==
    /\ IF ~LevelOwnedBy(levels, roadmaps, goals, l, u)
       THEN /\ last' = Response("submit_quiz", u, l, 0, 404)
            /\ UNCHANGED <<db, cache>>
       ELSE \E nx \in NextLevelChoices(levels, l) :
              /\ ExpInRange(AwardedExp(total_exp[u], levels[l].xp_reward))
              /\ DeleteCache
              /\ Flush(SubmitWrites(u, total_exp[u], levels, roadmaps, goals, l, nx))
              /\ last' = [SubmitResponse(u, levels, l, nx) EXCEPT !.arg = BoolArg(passed)]
    /\ UNCHANGED req
    /\ UNCHANGED limiter

SubmitQuiz(u, l, passed) ==
    /\ IF ~LevelOwnedBy(levels, roadmaps, goals, l, u)
       THEN /\ last' = Response("submit_quiz", u, l, 0, 404)
            /\ UNCHANGED <<db, cache>>
       ELSE IF ~passed
       THEN /\ last' = Response("submit_quiz", u, l, 0, 200)
            /\ UNCHANGED <<db, cache>>
       ELSE \E nx \in NextLevelChoices(levels, l) :
              /\ ExpInRange(AwardedExp(total_exp[u], levels[l].xp_reward))
              /\ DeleteCache
              /\ Flush(SubmitWrites(u, total_exp[u], levels, roadmaps, goals, l, nx))
              /\ last' = SubmitResponse(u, levels, l, nx)
    /\ UNCHANGED req
    /\ UNCHANGED limiter

GetLeaderboard(u) ==
    /\ last' = Response("get_leaderboard", u, 0, BoolArg(cache.present), 200)
    /\ IF cache.present THEN UNCHANGED cache ELSE SetCache(total_exp)
    /\ UNCHANGED <<db, req>>
    /\ UNCHANGED limiter

\* the TTL of the key runs out
CacheExpires ==
    /\ cache.present
    /\ DeleteCache
    /\ last' = Response("ttl_expired", 0, 0, 0, 0)
    /\ UNCHANGED <<db, req>>
    /\ UNCHANGED limiter

\* level ids a request may name: every row, and one id past the table
LevelIdInputs == 1..(Len(levels) + 1)

\* The inputs a handler reads. A request whose level is not found reads neither
\* the topic index nor the verdict, so one value stands for all of them.
TopicIndexInputs(u, l) ==
    IF LevelOwnedBy(levels, roadmaps, goals, l, u) THEN -1..2 ELSE {0}

\* the generator is called only for a level that is found and whose topics
\* are all completed
QuizInputs(u, l) ==
    IF /\ LevelOwnedBy(levels, roadmaps, goals, l, u)
       /\ ~TopicsIncomplete(levels[l].topics)
    THEN QuizGenerations
    ELSE {0}

VerdictInputs(u, l) ==
    IF LevelOwnedBy(levels, roadmaps, goals, l, u) THEN BOOLEAN ELSE {FALSE}

RateLimitedOps == {"create_goal", "get_quiz", "submit_quiz"}

Next ==
    \/ \E u \in Users, op \in RateLimitedOps : RateLimited(op, u)
    \/ \E u \in Users, d \in RoadmapGenerations : CreateGoal(u, d)
    \/ \E u \in Users, l \in LevelIdInputs : \E idx \in TopicIndexInputs(u, l) : MarkTopic(u, l, idx)
    \/ \E u \in Users, l \in LevelIdInputs : \E q \in QuizInputs(u, l) : GetQuiz(u, l, q)
    \/ \E u \in Users, l \in LevelIdInputs : \E passed \in VerdictInputs(u, l) : SubmitQuiz(u, l, passed)

Spec == Init /\ [][Next]_vars

(* The same handlers with the leaderboard: get_leaderboard fills the cache *)
(* that submit_level_quiz deletes.                                         *)

NextCache ==
    \/ \E u \in Users : RateLimited("get_leaderboard", u)
    \/ \E u \in Users, d \in RoadmapGenerations : CreateGoal(u, d)
    \/ \E u \in Users, l \in LevelIdInputs : \E passed \in VerdictInputs(u, l) : SubmitQuiz(u, l, passed)
    \/ \E u \in Users : GetLeaderboard(u)
    \/ CacheExpires

SpecCache == Init /\ [][NextCache]_vars

----------------------------------------------------------------------------
(* submit_level_quiz with overlapping requests.  A request runs between    *)
(* its awaits without interruption: get_current_user loads the User row    *)
(* (db.get), the handler's select loads the level with its roadmap's goal  *)
(* and levels, the handler works on these session objects and deletes the  *)
(* cache key, and db.commit() writes the session's changes.  Other         *)
(* requests run between these steps.  create_goal's rows become visible at *)
(* its commit, so it stays one step.                                       *)

\* the roadmaps on which overlapping requests are explored: those whose levels
\* carry distinct orders
ConcurrentGenerations == RoadmapGenerations \ {DocId(DocDuplicate)}

\* get_current_user: user = await db.get(User, int(id))
Authenticate(s, u) ==
    /\ req[s].pc = "idle"
    /\ req' = [req EXCEPT ![s] = [IdleRequest EXCEPT !.pc = "authed", !.user = u,
                                                    !.xp = total_exp[u]]]
    /\ UNCHANGED <<db, cache, last>>
    /\ UNCHANGED limiter

\* check_rate_limit raises 429
SubmitRateLimited(s) ==
    /\ req[s].pc = "authed"
    /\ req' = [req EXCEPT ![s] = IdleRequest]
    /\ last' = Response("submit_quiz", req[s].user, 0, 0, 429)
    /\ UNCHANGED <<db, cache>>
    /\ UNCHANGED limiter

\* the select, and the handler up to "await db.commit()" or to its return
SubmitLoad(s, l, passed) ==
    LET u == req[s].user IN
    /\ req[s].pc = "authed"
    /\ IF ~LevelOwnedBy(levels, roadmaps, goals, l, u)
       THEN /\ last' = Response("submit_quiz", u, l, 0, 404)
            /\ req' = [req EXCEPT ![s] = IdleRequest]
            /\ UNCHANGED cache
       ELSE IF ~passed
       THEN /\ last' = Response("submit_quiz", u, l, 0, 200)
            /\ req' = [req EXCEPT ![s] = IdleRequest]
            /\ UNCHANGED cache
       ELSE \E nx \in NextLevelChoices(levels, l) :
              /\ ExpInRange(AwardedExp(req[s].xp, levels[l].xp_reward))
              /\ DeleteCache
              /\ req' = [req EXCEPT ![s].pc = "loaded",
                                    ![s].w = SubmitWrites(u, req[s].xp, levels, roadmaps, goals, l, nx),
                                    ![s].resp = SubmitResponse(u, levels, l, nx)]
              /\ UNCHANGED last
    /\ UNCHANGED db
    /\ UNCHANGED limiter

\* await db.commit(), and the return of the response
SubmitCommit(s) ==
    /\ req[s].pc = "loaded"
    /\ Flush(req[s].w)
    /\ last' = req[s].resp
    /\ req' = [req EXCEPT ![s] = IdleRequest]
    /\ UNCHANGED cache
    /\ UNCHANGED limiter

\* the select or db.commit() raises: the exception leaves the handler (it has no
\* except clause), get_db's "async with" closes the session, which rolls its
\* transaction back, and the caller gets 500. arg tells whether the request had
\* reached its commit.
SubmitFails(s) ==
    /\ req[s].pc \in {"authed", "loaded"}
    /\ req' = [req EXCEPT ![s] = IdleRequest]
    /\ last' = Response("submit_quiz", req[s].user, 0, BoolArg(req[s].pc = "loaded"), 500)
    /\ UNCHANGED <<db, cache>>
    /\ UNCHANGED limiter

NextConc ==
    \/ \E u \in Users, d \in ConcurrentGenerations : CreateGoal(u, d)
    \/ \E s \in Slots, u \in Users : Authenticate(s, u)
    \/ \E s \in Slots : SubmitRateLimited(s)
    \/ \E s \in Slots, l \in LevelIdInputs : \E passed \in VerdictInputs(req[s].user, l) : SubmitLoad(s, l, passed)
    \/ \E s \in Slots : SubmitCommit(s)
    \/ \E s \in Slots : SubmitFails(s)

SpecConc == Init /\ [][NextConc]_vars

----------------------------------------------------------------------------
(* check_rate_limit, called one request after another.  code 0: the        *)
(* function returns and the handler goes on; 429: it raises.  The clock    *)
(* advances in ticks; a key set to expire in RateWindow is gone RateWindow *)
(* ticks later.                                                            *)

CheckRateLimit(c, a, fault) ==
    LET k    == <<c, a>>
        key  == rate_limit[k]
        code == RateLimitVerdict(fault, key, RateLimit)
    IN \* the pipeline is reached only if the check has not raised
       /\ fault = "pipeline" => code = 0
       /\ CASE fault = "none" /\ code = 0 ->
                 rate_limit' = [rate_limit EXCEPT ![k] = Counted(key, RateWindow)]
            [] fault = "pipeline" ->
                 \* MULTI/EXEC: redis has run both commands or none when the call raises
                 \/ rate_limit' = [rate_limit EXCEPT ![k] = Counted(key, RateWindow)]
                 \/ UNCHANGED rate_limit
            [] OTHER -> UNCHANGED rate_limit
       /\ rate_calls' = [rate_calls EXCEPT ![k] = Called(key, rate_calls[k], RateLimit)]
       /\ last' = Response(a, c, 0, FaultArg(fault), code)
       /\ UNCHANGED <<db, cache, req>>

\* one tick of the clock: every key's time to live shrinks, a key at its end is deleted
Tick ==
    /\ \E k \in RateKeys : rate_limit[k].ttl # 0
    /\ rate_limit' = [k \in RateKeys |->
                        IF rate_limit[k].ttl <= 1 THEN NoKey
                        ELSE [rate_limit[k] EXCEPT !.ttl = @ - 1]]
    /\ rate_calls' = [k \in RateKeys |->
                        IF rate_limit[k].ttl <= 1 THEN NoCalls
                        ELSE [rate_calls[k] EXCEPT
                                !.age = IF @ < RateWindow THEN @ + 1 ELSE @]]
    /\ last' = Response("tick", 0, 0, 0, 0)
    /\ UNCHANGED <<db, cache, req>>

\* redis works
NextRate ==
    \/ \E k \in RateKeys : CheckRateLimit(k[1], k[2], "none")
    \/ Tick

SpecRate == Init /\ [][NextRate]_vars

\* redis may fail
NextRateFaulty ==
    \/ \E k \in RateKeys, fault \in StoreFaults : CheckRateLimit(k[1], k[2], fault)
    \/ Tick

SpecRateFaulty == Init /\ [][NextRateFaulty]_vars

(* submit_level_quiz sessions interleaved with get_leaderboard.  The read  *)
(* is taken in one step (its cache lookup, its query and its set_cache     *)
(* with nothing in between), which is one of the schedules of the handler. *)

\* the roadmap documents of this specification: one valid document
LeaderboardGenerations == {DocId(DocTwo)}

NextConcCache ==
    \/ \E u \in Users, d \in LeaderboardGenerations : CreateGoal(u, d)
    \/ \E s \in Slots, u \in Users : Authenticate(s, u)
    \/ \E s \in Slots, l \in LevelIdInputs : \E passed \in VerdictInputs(req[s].user, l) : SubmitLoad(s, l, passed)
    \/ \E s \in Slots : SubmitCommit(s)
    \/ \E s \in Slots : SubmitFails(s)
    \/ \E u \in Users : GetLeaderboard(u)
    \/ CacheExpires

SpecConcCache == Init /\ [][NextConcCache]_vars

(* mark_topic sessions interleaved: each has its own AsyncSession, reads   *)
(* the level at its select and writes the topic list at its commit.        *)

\* the roadmap documents of this specification: the one whose first level
\* has two topics
TopicGenerations == {DocId(DocThree)}

\* the select, and the handler up to "await db.commit()" or to its error
TopicLoad(s, l, idx) ==
    LET u == req[s].user IN
    /\ req[s].pc = "authed"
    /\ IF ~LevelOwnedBy(levels, roadmaps, goals, l, u)
       THEN /\ last' = Response("mark_topic", u, l, 0, 404)
            /\ req' = [req EXCEPT ![s] = IdleRequest]
       ELSE IF InvalidTopicIndex(levels[l].topics, idx)
       THEN /\ last' = Response("mark_topic", u, l, idx, 400)
            /\ req' = [req EXCEPT ![s] = IdleRequest]
       ELSE /\ req' = [req EXCEPT ![s].pc = "toggled",
                                  ![s].w = ToggleWrites(u, levels, l, idx),
                                  ![s].resp = [Response("mark_topic", u, l, idx, 200) EXCEPT
                                                 !.before = levels[l].topics[idx + 1]]]
            /\ UNCHANGED last
    /\ UNCHANGED <<db, cache>>
    /\ UNCHANGED limiter

\* await db.commit(), and the return of the response
TopicCommit(s) ==
    /\ req[s].pc = "toggled"
    /\ Flush(req[s].w)
    /\ last' = req[s].resp
    /\ req' = [req EXCEPT ![s] = IdleRequest]
    /\ UNCHANGED cache
    /\ UNCHANGED limiter

NextTopics ==
    \/ \E u \in Users, d \in TopicGenerations : CreateGoal(u, d)
    \/ \E s \in Slots, u \in Users : Authenticate(s, u)
    \/ \E s \in Slots, l \in LevelIdInputs : \E idx \in TopicIndexInputs(req[s].user, l) : TopicLoad(s, l, idx)
    \/ \E s \in Slots : TopicCommit(s)

SpecTopics == Init /\ [][NextTopics]_vars

(* check_rate_limit called by server processes that share the redis: the   *)
(* function makes two round trips, the GET and the MULTI/EXEC of the       *)
(* pipeline, and another process's round trips may come between them.      *)
(* (Inside one process the function has no await and runs undisturbed.)    *)

\* count = redis_client.get(cache_key), and the check
RateRead(s, k) ==
    /\ req[s].pc = "idle"
    /\ IF RateLimitVerdict("none", rate_limit[k], RateLimit) = 429
       THEN /\ last' = Response(k[2], k[1], 0, 0, 429)
            /\ rate_calls' = [rate_calls EXCEPT ![k] = Called(rate_limit[k], @, RateLimit)]
            /\ UNCHANGED req
       ELSE /\ req' = [req EXCEPT ![s] = [IdleRequest EXCEPT
                            !.pc = "counting", !.user = k[1],
                            !.resp = Response(k[2], k[1], 0, 0, 0)]]
            /\ UNCHANGED <<rate_calls, last>>
    /\ UNCHANGED <<db, cache, rate_limit>>

\* pipe.execute(), and the return
RateCount(s) ==
    LET k == <<req[s].user, req[s].resp.op>> IN
    /\ req[s].pc = "counting"
    /\ rate_limit' = [rate_limit EXCEPT ![k] = Counted(@, RateWindow)]
    /\ rate_calls' = [rate_calls EXCEPT ![k] = Called(rate_limit[k], @, RateLimit)]
    /\ last' = req[s].resp
    /\ req' = [req EXCEPT ![s] = IdleRequest]
    /\ UNCHANGED <<db, cache>>

NextRateConc ==
    \/ \E s \in Slots, k \in RateKeys : RateRead(s, k)
    \/ \E s \in Slots : RateCount(s)
    \/ Tick

SpecRateConc == Init /\ [][NextRateConc]_vars

----------------------------------------------------------------------------
(* Steps and shapes the claims speak of *)

\* this step is a request of user u on level l that returned 200
Returned200(op, u, l) ==
    /\ last'.op = op /\ last'.user = u /\ last'.level = l /\ last'.code = 200

\* this step is SubmitQuiz(passed=true) of u on l, in Spec and SpecCache
PassedStep(u, l) == Returned200("submit_quiz", u, l) /\ last'.arg = 1

\* this step is SubmitQuiz(passed=false) of u on l, in Spec and SpecCache
FailedStep(u, l) == Returned200("submit_quiz", u, l) /\ last'.arg = 0

OwnerOfLevel(l) == goals[roadmaps[levels[l].roadmap_id].goal_id].user_id

Orders(r) == {levels[i].order : i \in RoadmapLevels(levels, r)}

\* orders 1..N, the level of order 1 unlocked and every other level locked
FreshRoadmap(r) ==
    LET ls == RoadmapLevels(levels, r) IN
    /\ ls # {}
    /\ Orders(r) = 1..Cardinality(ls)
    /\ \A i \in ls : levels[i].status = IF levels[i].order = 1 THEN "unlocked" ELSE "locked"

AllLevelsCompletedAfter(r) ==
    \A i \in RoadmapLevels(levels, r) : levels'[i].status = "completed"

----------------------------------------------------------------------------
(* C1: on a roadmap with orders 1..N, level 1 unlocked and the others      *)
(* locked, a passing SubmitQuiz by the owner on the level of order k sets  *)
(* that level to completed, the level of order k+1 (if any, and locked) to *)
(* unlocked, leaves every other level's status as it was, and sets         *)
(* goal.status to in_progress unless every level is now completed.         *)
C1_UnlockCascade ==
    [][\A l \in 1..Len(levels) :
         LET r == levels[l].roadmap_id
             g == roadmaps[r].goal_id
         IN (FreshRoadmap(r) /\ PassedStep(OwnerOfLevel(l), l)) =>
              /\ levels'[l].status = "completed"
              /\ \A i \in 1..Len(levels) \ {l} :
                   levels'[i].status =
                     IF /\ levels[i].roadmap_id = r
                        /\ levels[i].order = levels[l].order + 1
                        /\ levels[i].status = "locked"
                     THEN "unlocked"
                     ELSE levels[i].status
              /\ goals'[g].status =
                   IF AllLevelsCompletedAfter(r) THEN "completed" ELSE "in_progress"
      ]_vars

\* level 1 of a roadmap [1,2,3] was just passed: completed, unlocked, locked
C1_Witness ==
    \E l \in 1..Len(levels) :
      LET r == levels[l].roadmap_id
          ls == RoadmapLevels(levels, r)
      IN /\ last.op = "submit_quiz" /\ last.code = 200 /\ last.arg = 1 /\ last.level = l
         /\ levels[l].order = 1 /\ Cardinality(ls) = 3 /\ Orders(r) = 1..3
         /\ \A i \in ls : levels[i].status =
               CASE levels[i].order = 1 -> "completed"
                 [] levels[i].order = 2 -> "unlocked"
                 [] OTHER -> "locked"
         /\ goals[roadmaps[r].goal_id].status = "in_progress"

(* C2: with SubmitQuiz calls one after another, goal.status is completed   *)
(* after a passing call iff every level of the roadmap is then completed,  *)
(* and goal.status is never completed while some level is not.             *)
C2_GoalCompletedIffAllLevels ==
    /\ [](\A r \in 1..Len(roadmaps) :
            goals[roadmaps[r].goal_id].status = "completed" =>
              \A i \in RoadmapLevels(levels, r) : levels[i].status = "completed")
    /\ [][\A l \in 1..Len(levels) :
            LET r == levels[l].roadmap_id IN
            PassedStep(OwnerOfLevel(l), l) =>
              (goals'[roadmaps[r].goal_id].status = "completed" <=> AllLevelsCompletedAfter(r))
        ]_vars

\* the last level of a roadmap of several levels was just passed: the goal is completed
C2_Witness ==
    \E l \in 1..Len(levels) :
      LET r == levels[l].roadmap_id
          ls == RoadmapLevels(levels, r)
      IN /\ last.op = "submit_quiz" /\ last.code = 200 /\ last.arg = 1 /\ last.level = l
         /\ Cardinality(ls) >= 2
         /\ \A i \in ls : levels[i].status = "completed"
         /\ goals[roadmaps[r].goal_id].status = "completed"

C5_ExpNeverDecreases ==
    [][\A u \in Users, l \in 1..Len(levels) :
         PassedStep(u, l) => total_exp'[u] >= total_exp[u]
      ]_vars

RECURSIVE SumOfRewards(_)
SumOfRewards(S) ==
    IF S = {} THEN 0
    ELSE LET i == CHOOSE j \in S : TRUE
         IN levels[i].xp_reward + SumOfRewards(S \ {i})

CompletedLevelsOf(u) ==
    {i \in 1..Len(levels) : OwnerOfLevel(i) = u /\ levels[i].status = "completed"}

(* C6: in every reachable state a user's total_exp is the sum of xp_reward *)
(* over the completed levels of that user's goals, each counted once.      *)
C6_ExpIsSumOfCompleted ==
    \A u \in Users : total_exp[u] = SumOfRewards(CompletedLevelsOf(u))

(* C7: SubmitQuiz with passed=false changes no progression state: the      *)
(* caller's total_exp, every level's status, goal.status and the           *)
(* leaderboard cache entry stay as they were, and the response reports     *)
(* xp_earned = 0 and next_level_unlocked = false.                          *)
C7_FailedSubmitChangesNothing ==
    [][\A u \in Users, l \in 1..Len(levels) :
         FailedStep(u, l) =>
            /\ UNCHANGED <<total_exp, goals, roadmaps, levels, cache>>
            /\ last'.xp_earned = 0
            /\ ~last'.unlocked
      ]_vars

\* a failed submission on an unlocked level of a user who holds XP, with the
\* leaderboard cached
C7_Witness ==
    /\ last.op = "submit_quiz" /\ last.code = 200 /\ last.arg = 0
    /\ last.level \in 1..Len(levels)
    /\ levels[last.level].status = "unlocked"
    /\ total_exp[last.user] > 0
    /\ cache.present

----------------------------------------------------------------------------
(* Overlapping requests (SpecConc) *)

\* this step is the commit of the request in slot s
CommitStep(s) == req[s].pc = "loaded" /\ req'[s].pc = "idle" /\ last'.code = 200

\* this step is the failure of the request in slot s at its commit
FailedCommitStep(s) == req[s].pc = "loaded" /\ req'[s].pc = "idle" /\ last'.code = 500

(* C8: in every execution, overlapping SubmitQuiz requests included, a     *)
(* level whose persisted status is completed never afterwards has another  *)
(* persisted status.                                                       *)
C8_CompletedStays ==
    [][\A l \in 1..Len(levels) :
         levels[l].status = "completed" => levels'[l].status = "completed"
      ]_vars

GoalRank(st) ==
    CASE st = "not_started" -> 0
      [] st = "in_progress" -> 1
      [] st = "completed" -> 2

(* C9: the persisted goal.status never moves backwards in the order        *)
(* not_started < in_progress < completed, overlapping requests included.   *)
C9_GoalNeverRegresses ==
    [][\A g \in 1..Len(goals) :
         GoalRank(goals'[g].status) >= GoalRank(goals[g].status)
      ]_vars

(* C10: when two passing SubmitQuiz calls of one user for two different    *)
(* levels overlap and both commit, total_exp has grown by both rewards:    *)
(* the commit that follows the other call's commit adds its own xp_reward  *)
(* to the total that the other call left.                                  *)
C10_NoAwardLost ==
    [][\A s \in Slots :
         LET u == req[s].w.user IN
         ( /\ CommitStep(s)
           /\ last.op = "submit_quiz" /\ last.code = 200 /\ last.arg = 1
           /\ last.user = u
           /\ last.level # req[s].resp.level )
         => total_exp'[u] = total_exp[u] + req[s].resp.xp_earned
      ]_vars

\* no request is between its select and its commit
AllCommitted == \A s \in Slots : req[s].pc # "loaded"

(* C11: in every persisted state in which no SubmitQuiz is still waiting   *)
(* for its commit, overlapping calls for different levels of one roadmap   *)
(* included, goal.status is completed whenever every level of the roadmap  *)
(* is completed.                                                           *)
C11_AllCompletedGoalCompleted ==
    AllCommitted =>
      \A r \in 1..Len(roadmaps) :
        (\A i \in RoadmapLevels(levels, r) : levels[i].status = "completed")
          => goals[roadmaps[r].goal_id].status = "completed"


(* C12: the effects of a passing SubmitQuiz are persisted in one step, all *)
(* of them or none: the step of its commit writes the XP, the level        *)
(* statuses and the goal status of its session together and nothing else;  *)
(* a request that fails at its commit persists nothing; and no other step  *)
(* of a SubmitQuiz changes total_exp, a level status or a goal status.     *)
C12_SubmitAtomic ==
    [][/\ \A s \in Slots :
            CommitStep(s) =>
              LET w == req[s].w IN
              /\ \A u \in Users :
                    total_exp'[u] = IF u = w.user /\ w.xp # <<>> THEN w.xp[1] ELSE total_exp[u]
              /\ \A i \in 1..Len(levels) :
                    levels'[i].status =
                      IF \E p \in w.st : p[1] = i
                      THEN (CHOOSE p \in w.st : p[1] = i)[2]
                      ELSE levels[i].status
              /\ \A g \in 1..Len(goals) :
                    goals'[g].status =
                      IF w.gs # <<>> /\ w.gs[1][1] = g THEN w.gs[1][2] ELSE goals[g].status
              /\ req[s].resp.xp_earned # 0 =>
                    (<<req[s].resp.level, "completed">> \in w.st
                       => levels'[req[s].resp.level].status = "completed")
       /\ \A s \in Slots : FailedCommitStep(s) => UNCHANGED db
       /\ (\A s \in Slots : ~CommitStep(s)) =>
            /\ total_exp' = total_exp
            /\ \A i \in 1..Len(levels) : levels'[i].status = levels[i].status
            /\ \A g \in 1..Len(goals) : goals'[g].status = goals[g].status
      ]_vars

\* a passing submission has committed its XP, the completed level and the
\* unlocked next level while another request waits for its own commit
C12_Witness ==
    /\ last.op = "submit_quiz" /\ last.code = 200 /\ last.arg = 1
    /\ last.xp_earned > 0 /\ last.unlocked
    /\ total_exp[last.user] = last.xp_earned
    /\ levels[last.level].status = "completed"
    /\ \E i \in RoadmapLevels(levels, levels[last.level].roadmap_id) :
          levels[i].order = levels[last.level].order + 1 /\ levels[i].status = "unlocked"
    /\ goals[roadmaps[levels[last.level].roadmap_id].goal_id].status = "in_progress"
    /\ \E s \in Slots : req[s].pc = "loaded"


----------------------------------------------------------------------------
(* create_goal (Spec) *)

\* this step is a create_goal request of user u that answered code
CreateGoalStep(u, code) ==
    last'.op = "create_goal" /\ last'.user = u /\ last'.code = code

\* the tables keep the rows they had
RowsKept ==
    /\ SubSeq(goals', 1, Len(goals)) = goals
    /\ SubSeq(roadmaps', 1, Len(roadmaps)) = roadmaps
    /\ SubSeq(levels', 1, Len(levels)) = levels

(* C13: a successful create_goal adds exactly one Goal, not_started and    *)
(* owned by the caller, exactly one Roadmap of that goal, and exactly one  *)
(* Level per level entry of the document, in its order, unlocked if the    *)
(* entry's order is 1 and locked otherwise; it changes no other row.       *)
C13_CreateGoalRows ==
    [][\A u \in Users :
         CreateGoalStep(u, 201) =>
           LET doc == DocumentList[last'.arg]
               n   == Len(doc.levels)
           IN /\ RowsKept
              /\ UNCHANGED total_exp
              /\ Len(goals') = Len(goals) + 1
              /\ goals'[Len(goals')] = [user_id |-> u, status |-> "not_started"]
              /\ Len(roadmaps') = Len(roadmaps) + 1
              /\ roadmaps'[Len(roadmaps')] = [goal_id |-> Len(goals')]
              /\ Len(levels') = Len(levels) + n
              /\ \A i \in 1..n :
                    LET row == levels'[Len(levels) + i] IN
                    /\ row.roadmap_id = Len(roadmaps')
                    /\ row.order = doc.levels[i].order
                    /\ row.xp_reward = doc.levels[i].xp_reward
                    /\ row.topics = doc.levels[i].topics
                    /\ row.status = IF doc.levels[i].order = 1 THEN "unlocked" ELSE "locked"
      ]_vars

\* a goal was just created from the document of two levels, next to an older goal
C13_Witness ==
    /\ last.op = "create_goal" /\ last.code = 201 /\ last.arg = DocId(DocTwo)
    /\ Len(goals) = 2 /\ Len(roadmaps) = 2 /\ Len(levels) = 3
    /\ goals[2] = [user_id |-> last.user, status |-> "not_started"]
    /\ roadmaps[2].goal_id = 2
    /\ levels[1].roadmap_id = 1 /\ levels[1].status = "completed"
    /\ levels[2].roadmap_id = 2 /\ levels[2].order = 1 /\ levels[2].status = "unlocked"
    /\ levels[3].roadmap_id = 2 /\ levels[3].order = 2 /\ levels[3].status = "locked"

\* the level rows a step has added
AddedLevels == (Len(levels) + 1)..Len(levels')

(* C14: every roadmap that create_goal persists has level orders that are  *)
(* exactly 1..N, each once, and exactly one of its levels, the one of      *)
(* order 1, starts unlocked.                                               *)
C14_OrdersContiguous ==
    [][\A u \in Users :
         CreateGoalStep(u, 201) =>
           /\ AddedLevels # {}
           /\ {levels'[i].order : i \in AddedLevels} = 1..Cardinality(AddedLevels)
           /\ \A i, j \in AddedLevels : levels'[i].order = levels'[j].order => i = j
           /\ Cardinality({i \in AddedLevels : levels'[i].status = "unlocked"}) = 1
           /\ \A i \in AddedLevels : levels'[i].status = "unlocked" <=> levels'[i].order = 1
      ]_vars

(* C15: a create_goal that answers an error, whatever failed, leaves no    *)
(* Goal, Roadmap or Level row of that call persisted.                      *)
C15_FailedCreateLeavesNothing ==
    [][\A u \in Users :
         (last'.op = "create_goal" /\ last'.user = u /\ last'.code >= 400)
           => UNCHANGED <<goals, roadmaps, levels>>
      ]_vars


----------------------------------------------------------------------------
(* check_rate_limit (SpecRate, SpecRateFaulty) *)

\* this step is a call of check_rate_limit for the key k
CheckStep(k) == last'.op = k[2] /\ last'.user = k[1]

(* C16: with calls one after another, counted from the call that finds no  *)
(* counter for its (client, action): a call within the window of that      *)
(* first call is rejected with 429 exactly if limit calls of the same      *)
(* client for the same action came before it in the window.  So the first  *)
(* limit calls are allowed, the next is rejected, and calls of the client   *)
(* for another action or of another client for the action neither count    *)
(* nor touch its counter.                                                  *)
C16_LimitPerClientAndAction ==
    [][\A k \in RateKeys :
         CheckStep(k) =>
           /\ rate_calls[k].age < RateWindow =>
                 (last'.code = 429 <=> rate_calls[k].n >= RateLimit)
           /\ \A k2 \in RateKeys \ {k} : rate_limit'[k2] = rate_limit[k2]
      ]_vars

\* a client is rejected on its call limit + 1 for an action, in the window of
\* its first call, while its counter for the other action and the other
\* client's counter for the action stand at 1
C16_Witness ==
    \E k \in RateKeys :
      /\ last.op = k[2] /\ last.user = k[1] /\ last.code = 429
      /\ rate_calls[k].n = RateLimit + 1
      /\ rate_calls[k].age < RateWindow
      /\ \E k2 \in RateKeys : k2[1] = k[1] /\ k2[2] # k[2] /\ rate_limit[k2].count = 1
      /\ \E k2 \in RateKeys : k2[1] # k[1] /\ k2[2] = k[2] /\ rate_limit[k2].count = 1

(* C17: a call of check_rate_limit in which redis fails, at the read of    *)
(* the counter or at the increment/expire pipeline, returns without an     *)
(* error; and a call that reads a counter at or over the limit raises 429. *)
C17_FailOpen ==
    [][\A k \in RateKeys :
         CheckStep(k) =>
           /\ last'.arg # FaultArg("none") => last'.code = 0
           /\ ( /\ last'.arg # FaultArg("get")
                /\ rate_limit[k].ttl # 0
                /\ rate_limit[k].count >= RateLimit ) => last'.code = 429
      ]_vars

\* a client whose counter stands at the limit was let in because the read failed
C17_Witness ==
    \E k \in RateKeys :
      /\ last.op = k[2] /\ last.user = k[1]
      /\ last.arg = FaultArg("get") /\ last.code = 0
      /\ rate_limit[k].ttl # 0 /\ rate_limit[k].count >= RateLimit


----------------------------------------------------------------------------
(* The generators' validation and its outcome at the caller (Spec) *)

HasLevelsKey(doc) == "levels" \in doc.rkeys

\* some question of the quiz has a number of options other than 4
HasOddQuestion(quiz) ==
    \E i \in 1..Len(quiz.questions) : Len(quiz.questions[i].options) # 4

\* this step is a get_quiz request for which the generator answered QuizList[q]
QuizGeneratedStep(q) == last'.op = "get_quiz" /\ last'.gen /\ last'.arg = q

OptionLabels(question) == {question.options[i] : i \in 1..Len(question.options)}

(* C19: every quiz document that generate_quiz_for_level accepts, and      *)
(* GetQuiz so returns, has in each question a correct_answer that is the   *)
(* label of one of the question's options.                                 *)
C19_CorrectAnswerIsAnOption ==
    [][\A q \in 1..Len(QuizList) :
         (QuizGeneratedStep(q) /\ last'.code = 200) =>
            \A i \in 1..Len(QuizList[q].questions) :
               QuizList[q].questions[i].correct_answer \in OptionLabels(QuizList[q].questions[i])
      ]_vars

ClientError(code) == 400 <= code /\ code <= 499
ServerError(code) == 500 <= code /\ code <= 599

(* C20: in create_goal and in GetQuiz, a generator output that fails the   *)
(* validation is answered with a client error (4xx), and a failed          *)
(* generator call with a server error (5xx).                               *)
C20_ValidationIsClientError ==
    [][/\ \A d \in 1..Len(DocumentList) :
            (last'.op = "create_goal" /\ last'.arg = d /\ ~RoadmapValid(DocumentList[d]))
               => ClientError(last'.code)
       /\ (last'.op = "create_goal" /\ last'.arg = 0 /\ ~last'.gen /\ last'.code # 429)
               => ServerError(last'.code)
       /\ \A q \in 1..Len(QuizList) :
            (QuizGeneratedStep(q) /\ ~QuizValid(QuizList[q])) => ClientError(last'.code)
       /\ QuizGeneratedStep(0) => ServerError(last'.code)
      ]_vars


----------------------------------------------------------------------------
(* Errors of ToggleTopic and the path of a level's status (Spec) *)

\* this step is a mark_topic request of user u on the level id l
MarkTopicStep(u, l) == last'.op = "mark_topic" /\ last'.user = u /\ last'.level = l

\* the level id l names a row of a goal of user u
Owns(u, l) == l \in 1..Len(levels) /\ OwnerOfLevel(l) = u

PassingSubmitEnds(l) ==
    /\ last'.op = "submit_quiz" /\ last'.code = 200 /\ last'.arg = 1 /\ last'.level = l

\* the rows of the roadmap of level i whose order is one less than that of i
PreviousLevels(lv, i) ==
    {j \in RoadmapLevels(lv, lv[i].roadmap_id) : lv[j].order + 1 = lv[i].order}

(* C22: a level goes from locked to unlocked only in a step that ends a    *)
(* passing SubmitQuiz on the level of the previous order of its roadmap,   *)
(* and in every reachable state a level of order N+1 (N >= 1) that is      *)
(* unlocked has the level of order N completed.                            *)
C22_UnlockedAfterPrevious ==
    /\ [][\A i \in 1..Len(levels) :
            (levels[i].status = "locked" /\ levels'[i].status = "unlocked") =>
               \E l \in PreviousLevels(levels, i) : PassingSubmitEnds(l)
        ]_vars
    /\ [](\A i \in 1..Len(levels) :
            (levels[i].status = "unlocked" /\ levels[i].order >= 2) =>
               \E j \in PreviousLevels(levels, i) : levels[j].status = "completed")


(* C23: a level's status moves only along locked -> unlocked -> completed: *)
(* no step takes a level from locked directly to completed.                *)
C23_LockedNeverCompletes ==
    [][\A l \in 1..Len(levels) :
         levels[l].status = "locked" => levels'[l].status # "completed"
      ]_vars

(* C24: a level becomes completed only in a step that ends a               *)
(* SubmitQuiz(passed=true) on that level by the owner of its goal; no      *)
(* other request, create_goal included, sets a level to completed.         *)
C24_CompletedOnlyByOwnersSubmit ==
    [][\A l \in 1..Len(levels') :
         (levels'[l].status = "completed"
            /\ ~(l \in 1..Len(levels) /\ levels[l].status = "completed"))
         => /\ l \in 1..Len(levels)
            /\ PassingSubmitEnds(l)
            /\ last'.user = OwnerOfLevel(l)
      ]_vars

\* the owner's passing submission has just completed a level while another
\* user's goal has none completed
C24_Witness ==
    /\ last.op = "submit_quiz" /\ last.code = 200 /\ last.arg = 1
    /\ last.user = OwnerOfLevel(last.level)
    /\ levels[last.level].status = "completed"
    /\ \E i \in 1..Len(levels) : OwnerOfLevel(i) # last.user
    /\ \A i \in 1..Len(levels) : i # last.level => levels[i].status # "completed"


----------------------------------------------------------------------------
(* The rate limiter with overlapping calls, and its window *)

(* C25: when calls of one client for one action overlap, at most limit of  *)
(* them are allowed within one window: the counter of a key, which counts  *)
(* the calls allowed since the key was created, does not exceed the limit  *)
(* while the window of the key's first call lasts.                         *)
C25_AtMostLimitAllowed ==
    \A k \in RateKeys :
      (rate_limit[k].ttl # 0 /\ rate_calls[k].age < RateWindow)
        => rate_limit[k].count <= RateLimit

(* C26: the window is fixed: the counter of a (client, action) pair is     *)
(* gone window ticks after the first counted call, whatever calls were     *)
(* allowed in between, so no counter is older than the window.             *)
C26_WindowIsFixed ==
    \A k \in RateKeys : rate_limit[k].ttl # 0 => rate_calls[k].age < RateWindow


----------------------------------------------------------------------------
(* The leaderboard cache under overlapping requests *)

(* C27: once a passing SubmitQuiz has committed its XP award, the          *)
(* leaderboard cache holds no entry computed from the XP values before     *)
(* that award: an entry that is present was computed from the XP values    *)
(* that are committed now.                                                 *)
C27_CacheNeverStale == cache.present => cache.value = total_exp

----------------------------------------------------------------------------
(* The topic gate and the submission *)

(* C28: a level's status becomes completed only when every topic of that   *)
(* level has completed=true at the time of the passing SubmitQuiz.         *)
C28_CompletedOnlyWithAllTopics ==
    [][\A u \in Users, l \in 1..Len(levels) :
         (PassedStep(u, l) /\ levels[l].status # "completed"
                           /\ levels'[l].status = "completed")
            => \A t \in 1..Len(levels[l].topics) : levels[l].topics[t]
      ]_vars

----------------------------------------------------------------------------
(* Overlapping topic toggles *)

(* C29: when ToggleTopic requests on different topic indices of one level  *)
(* overlap, neither overwrites the other's flip: the commit of a toggle of *)
(* index idx leaves every other topic of the level as it is persisted at   *)
(* that moment.                                                            *)
C29_ToggleKeepsOtherTopics ==
    [][\A u \in Users, l \in 1..Len(levels) :
         MarkTopicStep(u, l) =>
            \A t \in 1..Len(levels[l].topics) :
               t # last'.arg + 1 => levels'[l].topics[t] = levels[l].topics[t]
      ]_vars

----------------------------------------------------------------------------
(* Isolation between users *)

\* this step ends a ToggleTopic, GetQuiz or SubmitQuiz request of user a
LevelRequestStep(a) ==
    /\ last'.op \in {"mark_topic", "get_quiz", "submit_quiz"}
    /\ last'.user = a

====
